---- MODULE Spec2Model ----
(***************************************************************************)
(* Model of the Nortek DVL driver, src/src/Sensors/NortekDVL/Driver.hpp.   *)
(*                                                                         *)
(* The driver is sequential code with nested calls, so the model keeps an  *)
(* explicit call stack.  Every frame holds the function it belongs to, a   *)
(* program counter named after the source line it stands at ("l105" is     *)
(* line 105; "l105r" is line 105 once the call made there has returned)    *)
(* and the function's parameters and locals.  The value returned by the    *)
(* latest call is in ret.                                                  *)
(*                                                                         *)
(* Bytes are modelled over a small alphabet (0 is NUL) and every literal   *)
(* the driver waits for is a two-symbol word; the read buffer is a scaled  *)
(* copy of `char bfr[256]'.                                                *)
(***************************************************************************)
EXTENDS Integers, Sequences, FiniteSets, TLC

VARIABLES
  m_salinity,       \* Driver::m_salinity
  m_sampling_rate,  \* Driver::m_sampling_rate
  m_cmd_mode,   \* Driver::m_cmd_mode
  stack,        \* call stack, the running frame last
  ret,          \* value returned by the latest call
  bfr,          \* readUntil: char bfr[256]
  offset,       \* readUntil: size_t offset
  elapsed,      \* readUntil: time elapsed on Counter<float> timer, in seconds
  phase,        \* lifecycle of the object: constructed, ready, destroyed
  op,           \* the public operation running or last run
  result,       \* what the last public operation returned
  sent,         \* history: the lines written by the current public operation
  stepres,      \* history: outcome of each of setup()'s eight steps
  nstart,       \* history: calls of start() by the current public operation
  device        \* the device at the other end: command or streaming

vars == <<m_salinity, m_sampling_rate, m_cmd_mode, stack, ret, bfr, offset,
          elapsed, phase, op, result, sent, stepres, nstart, device>>

paramvars == <<m_salinity, m_sampling_rate>>
scanvars == <<bfr, offset, elapsed>>
lifevars == <<phase, op, result>>
histvars == <<sent, stepres, nstart>>

----------------------------------------------------------------------------
(* Bounds *)

\* Scaled capacity of the read buffer (sizeof(bfr), 256 in the source).
BufSize == 3
\* Largest number of bytes one socket read returns.
MaxChunk == 2
\* How far beyond their valid ranges the values given to the setters go.
Beyond == 2

----------------------------------------------------------------------------
(* Bytes and literals *)

NUL == 0
Byte == {0, 1, 2}

\* "OK\r\n", the acknowledgment sendCommand waits for.
c_reply_ok == <<1, 2>>
\* "Username: "
c_prompt_user == <<2, 1>>
\* "Password: "
c_prompt_pass == <<2, 2>>
\* "Command Interface\r\r\n"
c_banner == <<1, 1>>

c_cmd_break == "K1W%!Q"
c_cmd_nortek == "nortek"

PowerLevel == {"PL_MIN", "PL_MED", "PL_MAX"}

\* A command line: its text up to the formatted argument, and the argument.
Cmd(name) == [name |-> name, arg |-> 0]
CmdArg(name, arg) == [name |-> name, arg |-> arg]

\* Variant: the case of PL_MIN has lost its break and falls into PL_MED.
PowerOf_fallthrough(level) ==
  CASE level = "PL_MIN" -> -10
    [] level = "PL_MED" -> -10
    [] level = "PL_MAX" -> 0

\* The transmit power setPowerLevel formats into its command.
PowerOf(level) ==
  CASE level = "PL_MIN" -> -20
    [] level = "PL_MED" -> -10
    [] level = "PL_MAX" -> 0

----------------------------------------------------------------------------
(* Floating-point values: a number, or NaN, which compares false with      *)
(* everything.                                                              *)

Dbl(v) == [nan |-> FALSE, v |-> v]
NaN == [nan |-> TRUE, v |-> 0]

\* a < b and a > b of C++.
Less(a, b) == ~a.nan /\ ~b.nan /\ a.v < b.v
Greater(a, b) == ~a.nan /\ ~b.nan /\ a.v > b.v

----------------------------------------------------------------------------
(* Call stack *)

Frame(fn, pc) ==
  [fn |-> fn, pc |-> pc, cmd |-> Cmd(""), ignore |-> FALSE, print |-> FALSE,
   sequence |-> <<>>, timeout |-> 0, level |-> "", r |-> FALSE,
   value |-> Dbl(0), base |-> 0]

SendCommandFrame(cmd, ignore, print) ==
  [Frame("sendCommand", "l309") EXCEPT !.cmd = cmd, !.ignore = ignore,
                                       !.print = print]

ReadUntilFrame(sequence, timeout, print) ==
  [Frame("readUntil", "l339") EXCEPT !.sequence = sequence,
                                     !.timeout = timeout, !.print = print]

Top == stack[Len(stack)]

At(fn, pc) == stack # <<>> /\ Top.fn = fn /\ Top.pc = pc

\* The running frame moves to pc.
Goto(pc) == stack' = [stack EXCEPT ![Len(stack)].pc = pc]

\* The running frame calls f and will resume at pc.
Call(pc, f) == stack' = Append([stack EXCEPT ![Len(stack)].pc = pc], f)

\* The running frame returns v to its caller.
Return(v) == stack' = SubSeq(stack, 1, Len(stack) - 1) /\ ret' = v

Str(b) == IF b THEN "true" ELSE "false"

----------------------------------------------------------------------------
(* Strings *)

Min(S) == CHOOSE x \in S : \A y \in S : x <= y

NulAt(b) == {i \in 1..Len(b) : b[i] = NUL}

\* The std::string built from a char array: the bytes before the first NUL.
\* Only defined when the array holds a NUL.
CStr(b) == SubSeq(b, 1, Min(NulAt(b)) - 1)

\* String::endsWith(str, suffix)
EndsWith(str, suffix) ==
  /\ Len(suffix) <= Len(str)
  /\ SubSeq(str, Len(str) - Len(suffix) + 1, Len(str)) = suffix

\* The outcomes of String::endsWith(bfr, sequence) at line 352.  bfr decays
\* to a C string: when all of bfr is non-NUL the conversion reads past the
\* array and either outcome is possible.
EndsWithBfr(b, sequence) ==
  IF NulAt(b) = {} THEN BOOLEAN ELSE {EndsWith(CStr(b), sequence)}

\* The bytes received so far by the running scan.
Accumulated == SubSeq(bfr, 1, offset)

ZeroBfr == [i \in 1..BufSize |-> NUL]

----------------------------------------------------------------------------
(* Transport *)

\* The number of bytes a read of at most size bytes may return once the
\* socket is readable.
ReadSizes(size) ==
  IF size = 0 THEN {0}
  ELSE 1..(IF size < MaxChunk THEN size ELSE MaxChunk)

\* Driver::write: the line goes to the socket.  via is "default" for a
\* command sent by sendCommand after the mode switch, "bypass" for one sent
\* with ignore set, "raw" for a credential.
SentEntry(cmd, via) ==
  [cmd |-> cmd, via |-> via, mode |-> m_cmd_mode, ack |-> "none",
   dev |-> device, timeout |-> 0, origin |-> 0]

\* The line written before this one by the running operation.
LastLine == IF sent = <<>> THEN "" ELSE sent[Len(sent)].cmd.name

\* The device once it has received a line, prev being the line before it:
\* START makes it stream, and it stops streaming when it receives MC right
\* after the break.
DeviceAfter(d, name, prev) ==
  CASE name = "START" -> "streaming"
    [] name = "MC" /\ prev = c_cmd_break -> "command"
    [] OTHER -> d

Write(cmd, via) ==
  /\ sent' = Append(sent, SentEntry(cmd, via))
  /\ device' = DeviceAfter(device, cmd.name, LastLine)

----------------------------------------------------------------------------
(* readUntil, lines 336-366 *)

\* Lines 339-341: the timer starts, the buffer is zeroed.  When the scan
\* waits for a command's acknowledgment, the history of that command keeps
\* the timer's timeout.
readUntil_l339 ==
  /\ At("readUntil", "l339")
  /\ bfr' = ZeroBfr
  /\ offset' = 0
  /\ elapsed' = 0
  /\ Goto("l343")
  /\ sent' = IF stack[Len(stack) - 1].fn = "sendCommand"
               THEN [sent EXCEPT ![Len(sent)].timeout = Top.timeout]
               ELSE sent
  /\ UNCHANGED <<paramvars, device, m_cmd_mode, ret, lifevars, stepres,
                 nstart>>

\* Variant: the loop never tests the timer.
readUntil_l343_noexit ==
  /\ At("readUntil", "l343")
  /\ Goto("l345")
  /\ UNCHANGED <<paramvars, device, m_cmd_mode, ret, scanvars, lifevars, histvars>>

\* Line 343: while (!timer.overflow()); past the loop, return false.
readUntil_l343 ==
  /\ At("readUntil", "l343")
  /\ IF elapsed >= Top.timeout
       THEN Return(FALSE)
       ELSE Goto("l345") /\ UNCHANGED ret
  /\ UNCHANGED <<paramvars, device, m_cmd_mode, scanvars, lifevars, histvars>>

\* Line 345: Poll::poll finds the socket readable before the deadline.
readUntil_l345_ready ==
  /\ At("readUntil", "l345")
  /\ Goto("l348")
  /\ UNCHANGED <<paramvars, device, m_cmd_mode, ret, scanvars, lifevars, histvars>>

\* Line 345: Poll::poll runs into the deadline; break, return false.
readUntil_l345_timeout ==
  /\ At("readUntil", "l345")
  /\ elapsed >= Top.timeout
  /\ Return(FALSE)
  /\ UNCHANGED <<paramvars, device, m_cmd_mode, scanvars, lifevars, histvars>>

\* Variant: every read asks for sizeof(bfr) bytes, whatever the offset.
readUntil_l348_fullsize ==
  /\ At("readUntil", "l348")
  /\ \E n \in ReadSizes(BufSize) : \E chunk \in [1..n -> Byte] :
       LET nb == [i \in 1..BufSize |->
                    IF offset < i /\ i <= offset + n
                      THEN chunk[i - offset] ELSE bfr[i]]
           no == offset + n
       IN  /\ bfr' = nb
           /\ offset' = no
           /\ IF no > BufSize
                THEN Return(FALSE)
                ELSE \E m \in EndsWithBfr(nb, Top.sequence) :
                       IF m THEN Return(TRUE)
                            ELSE Goto("l343") /\ UNCHANGED ret
  /\ elapsed' = elapsed
  /\ UNCHANGED <<paramvars, device, m_cmd_mode, lifevars, histvars>>

\* Lines 348-358: read into bfr + offset, then test the overflow and the
\* suffix.
readUntil_l348 ==
  /\ At("readUntil", "l348")
  /\ \E n \in ReadSizes(BufSize - offset) : \E chunk \in [1..n -> Byte] :
       LET nb == [i \in 1..BufSize |->
                    IF offset < i /\ i <= offset + n
                      THEN chunk[i - offset] ELSE bfr[i]]
           no == offset + n
       IN  /\ bfr' = nb
           /\ offset' = no
           /\ IF no > BufSize
                THEN Return(FALSE)
                ELSE \E m \in EndsWithBfr(nb, Top.sequence) :
                       IF m THEN Return(TRUE)
                            ELSE Goto("l343") /\ UNCHANGED ret
  /\ elapsed' = elapsed
  /\ UNCHANGED <<paramvars, device, m_cmd_mode, lifevars, histvars>>

\* Time passes on the running scan's timer.
Tick ==
  /\ stack # <<>>
  /\ Top.fn = "readUntil"
  /\ Top.pc \in {"l343", "l345", "l348"}
  /\ elapsed < Top.timeout
  /\ elapsed' = elapsed + 1
  /\ UNCHANGED <<paramvars, device, m_cmd_mode, stack, ret, bfr, offset, lifevars, histvars>>

\* The scan's locals go out of scope once the caller has its result.
ScanOver == bfr' = ZeroBfr /\ offset' = 0 /\ elapsed' = 0

----------------------------------------------------------------------------
(* sendCommand, lines 305-318 *)

\* Lines 309-311: unless ignore, enter command mode first.
sendCommand_l309 ==
  /\ At("sendCommand", "l309")
  /\ IF ~Top.ignore
       THEN Call("l311r", Frame("enterCommandMode", "l212"))
       ELSE Goto("l315")
  /\ UNCHANGED <<paramvars, device, m_cmd_mode, ret, scanvars, lifevars, histvars>>

\* Variant: the result of enterCommandMode is not tested.
sendCommand_l311r_ignore ==
  /\ At("sendCommand", "l311r")
  /\ Goto("l315")
  /\ UNCHANGED <<paramvars, device, m_cmd_mode, ret, scanvars, lifevars, histvars>>

\* Lines 311-312: if (!enterCommandMode()) return false.
sendCommand_l311r ==
  /\ At("sendCommand", "l311r")
  /\ IF ~ret
       THEN Return(FALSE)
       ELSE Goto("l315") /\ UNCHANGED ret
  /\ UNCHANGED <<paramvars, device, m_cmd_mode, scanvars, lifevars, histvars>>

\* Variant: a command sent with ignore set is given 2.0 s.
sendCommand_l315_longer ==
  /\ At("sendCommand", "l315")
  /\ Write(Top.cmd, IF Top.ignore THEN "bypass" ELSE "default")
  /\ Call("l317r",
          ReadUntilFrame(c_reply_ok, IF Top.ignore THEN 2 ELSE 1, Top.print))
  /\ UNCHANGED <<paramvars, m_cmd_mode, ret, scanvars, lifevars, stepres, nstart>>

\* Lines 315-317: write(cmd), then wait for "OK\r\n" for 1.0 s.
sendCommand_l315 ==
  /\ At("sendCommand", "l315")
  /\ Write(Top.cmd, IF Top.ignore THEN "bypass" ELSE "default")
  /\ Call("l317r", ReadUntilFrame(c_reply_ok, 1, Top.print))
  /\ UNCHANGED <<paramvars, m_cmd_mode, ret, scanvars, lifevars, stepres, nstart>>

\* Variant: any acknowledged command puts the session in command mode.
sendCommand_l317r_mode ==
  /\ At("sendCommand", "l317r")
  /\ Return(ret)
  /\ sent' = [sent EXCEPT ![Len(sent)].ack = IF ret THEN "ok" ELSE "fail"]
  /\ m_cmd_mode' = (m_cmd_mode \/ ret)
  /\ ScanOver
  /\ UNCHANGED <<paramvars, device, lifevars, stepres, nstart>>

\* Line 317: return readUntil(...).
sendCommand_l317r ==
  /\ At("sendCommand", "l317r")
  /\ Return(ret)
  /\ sent' = [sent EXCEPT ![Len(sent)].ack = IF ret THEN "ok" ELSE "fail"]
  /\ ScanOver
  /\ UNCHANGED <<paramvars, device, m_cmd_mode, lifevars, stepres, nstart>>

----------------------------------------------------------------------------
(* start, lines 193-204 *)

\* Line 197: sendCommand("START").
start_l197 ==
  /\ At("start", "l197")
  /\ Call("l197r", SendCommandFrame(Cmd("START"), FALSE, FALSE))
  /\ UNCHANGED <<paramvars, device, m_cmd_mode, ret, scanvars, lifevars, histvars>>

\* Variant: m_cmd_mode is left as it is.
start_l197r_keepmode ==
  /\ At("start", "l197r")
  /\ Return(ret)
  /\ UNCHANGED <<paramvars, device, m_cmd_mode, scanvars, lifevars, histvars>>

\* Lines 197-203: on success leave command mode and return true.
start_l197r ==
  /\ At("start", "l197r")
  /\ IF ret
       THEN m_cmd_mode' = FALSE /\ Return(TRUE)
       ELSE m_cmd_mode' = m_cmd_mode /\ Return(FALSE)
  /\ UNCHANGED <<paramvars, device, scanvars, lifevars, histvars>>

----------------------------------------------------------------------------
(* enterCommandMode, lines 208-224 *)

\* Variant: the break is sent whatever m_cmd_mode.
enterCommandMode_l212_always ==
  /\ At("enterCommandMode", "l212")
  /\ stack' = Append([stack EXCEPT ![Len(stack)].pc = "l215r",
                                   ![Len(stack)].base = Len(sent)],
                     Frame("sendBreak", "l231"))
  /\ UNCHANGED <<paramvars, device, m_cmd_mode, ret, scanvars, lifevars, histvars>>

\* Lines 212-215: nothing to do in command mode; otherwise send the break.
\* The frame keeps the number of lines written before the call (history).
enterCommandMode_l212 ==
  /\ At("enterCommandMode", "l212")
  /\ IF m_cmd_mode
       THEN Return(TRUE)
       ELSE /\ stack' = Append([stack EXCEPT ![Len(stack)].pc = "l215r",
                                             ![Len(stack)].base = Len(sent)],
                               Frame("sendBreak", "l231"))
            /\ UNCHANGED ret
  /\ UNCHANGED <<paramvars, device, m_cmd_mode, scanvars, lifevars, histvars>>

\* Variant: the result of sendBreak is not tested.
enterCommandMode_l215r_nobreak ==
  /\ At("enterCommandMode", "l215r")
  /\ Goto("l218")
  /\ UNCHANGED <<paramvars, device, m_cmd_mode, ret, scanvars, lifevars, histvars>>

\* Lines 215-216: if (!sendBreak()) return false.
enterCommandMode_l215r ==
  /\ At("enterCommandMode", "l215r")
  /\ IF ~ret
       THEN Return(FALSE)
       ELSE Goto("l218") /\ UNCHANGED ret
  /\ UNCHANGED <<paramvars, device, m_cmd_mode, scanvars, lifevars, histvars>>

\* Line 218: Delay::wait(1.0).
enterCommandMode_l218 ==
  /\ At("enterCommandMode", "l218")
  /\ Goto("l219")
  /\ UNCHANGED <<paramvars, device, m_cmd_mode, ret, scanvars, lifevars, histvars>>

\* Line 219: sendCommand("MC", 2.0, true): the 2.0 binds to ignore.
enterCommandMode_l219 ==
  /\ At("enterCommandMode", "l219")
  /\ Call("l219r", SendCommandFrame(Cmd("MC"), TRUE, TRUE))
  /\ UNCHANGED <<paramvars, device, m_cmd_mode, ret, scanvars, lifevars, histvars>>

\* Variant: m_cmd_mode is not set.
enterCommandMode_l219r_nomode ==
  /\ At("enterCommandMode", "l219r")
  /\ Return(ret)
  /\ UNCHANGED <<paramvars, device, m_cmd_mode, scanvars, lifevars, histvars>>

\* Variant: an unacknowledged MC is sent once more.
enterCommandMode_l219r_retry ==
  /\ At("enterCommandMode", "l219r")
  /\ IF ~ret
       THEN /\ m_cmd_mode' = m_cmd_mode
            /\ IF Cardinality({i \in DOMAIN sent : sent[i].cmd.name = "MC"}) < 2
                 THEN Call("l219r", SendCommandFrame(Cmd("MC"), TRUE, TRUE))
                      /\ UNCHANGED ret
                 ELSE Return(FALSE)
       ELSE m_cmd_mode' = TRUE /\ Return(TRUE)
  /\ UNCHANGED <<paramvars, device, scanvars, lifevars, histvars>>

\* Lines 219-223: on failure return false, else m_cmd_mode = true.
enterCommandMode_l219r ==
  /\ At("enterCommandMode", "l219r")
  /\ IF ~ret
       THEN m_cmd_mode' = m_cmd_mode /\ Return(FALSE)
       ELSE m_cmd_mode' = TRUE /\ Return(TRUE)
  /\ UNCHANGED <<paramvars, device, scanvars, lifevars, histvars>>

----------------------------------------------------------------------------
(* sendBreak, lines 228-240 *)

\* Line 231: sendCommand(c_cmd_break, true, 2.0): the 2.0 binds to print.
sendBreak_l231 ==
  /\ At("sendBreak", "l231")
  /\ Call("l231r", SendCommandFrame(Cmd(c_cmd_break), TRUE, TRUE))
  /\ UNCHANGED <<paramvars, device, m_cmd_mode, ret, scanvars, lifevars, histvars>>

\* Variant: a break counts as sent whether acknowledged or not.
sendBreak_l231r_noack ==
  /\ At("sendBreak", "l231r")
  /\ Return(TRUE)
  /\ UNCHANGED <<paramvars, device, m_cmd_mode, scanvars, lifevars, histvars>>

\* Variant: the second attempt is made whatever the first one's result.
sendBreak_l231r_always ==
  /\ At("sendBreak", "l231r")
  /\ Call("l233r", SendCommandFrame(Cmd(c_cmd_break), TRUE, TRUE))
  /\ UNCHANGED <<paramvars, device, m_cmd_mode, ret, scanvars, lifevars, histvars>>

\* Lines 231-239: a failed first attempt is followed by a second one.
sendBreak_l231r ==
  /\ At("sendBreak", "l231r")
  /\ IF ~ret
       THEN Call("l233r", SendCommandFrame(Cmd(c_cmd_break), TRUE, TRUE))
            /\ UNCHANGED ret
       ELSE Return(TRUE)
  /\ UNCHANGED <<paramvars, device, m_cmd_mode, scanvars, lifevars, histvars>>

\* Variant: the second attempt's result is not tested.
sendBreak_l233r_true ==
  /\ At("sendBreak", "l233r")
  /\ Return(TRUE)
  /\ UNCHANGED <<paramvars, device, m_cmd_mode, scanvars, lifevars, histvars>>

\* Lines 233-236: the second attempt decides.
sendBreak_l233r ==
  /\ At("sendBreak", "l233r")
  /\ Return(ret)
  /\ UNCHANGED <<paramvars, device, m_cmd_mode, scanvars, lifevars, histvars>>

----------------------------------------------------------------------------
(* login and replyLogin, lines 164-189 *)

\* Line 183: readUntil(reply, 1.0, true).
replyLogin_l183 ==
  /\ At("replyLogin", "l183")
  /\ Call("l183r", ReadUntilFrame(Top.sequence, 1, TRUE))
  /\ UNCHANGED <<paramvars, device, m_cmd_mode, ret, scanvars, lifevars, histvars>>

\* Lines 183-188: on a match write the credential and return true.
replyLogin_l183r ==
  /\ At("replyLogin", "l183r")
  /\ IF ret
       THEN Write(Cmd(c_cmd_nortek), "raw") /\ Return(TRUE)
       ELSE sent' = sent /\ device' = device /\ Return(FALSE)
  /\ ScanOver
  /\ UNCHANGED <<paramvars, m_cmd_mode, lifevars, stepres, nstart>>

\* Line 167: replyLogin("Username: ").
login_l167 ==
  /\ At("login", "l167")
  /\ Call("l167r", [Frame("replyLogin", "l183")
                      EXCEPT !.sequence = c_prompt_user])
  /\ UNCHANGED <<paramvars, device, m_cmd_mode, ret, scanvars, lifevars, histvars>>

\* Line 168: replyLogin("Password: "); the first reply's result is dropped.
login_l168 ==
  /\ At("login", "l167r")
  /\ Call("l168r", [Frame("replyLogin", "l183")
                      EXCEPT !.sequence = c_prompt_pass])
  /\ UNCHANGED <<paramvars, device, m_cmd_mode, ret, scanvars, lifevars, histvars>>

\* Line 170: readUntil("Command Interface\r\r\n", 2.0, true); the second
\* reply's result is dropped.
login_l170 ==
  /\ At("login", "l168r")
  /\ Call("l170r", ReadUntilFrame(c_banner, 2, TRUE))
  /\ UNCHANGED <<paramvars, device, m_cmd_mode, ret, scanvars, lifevars, histvars>>

\* Lines 170-176: without the banner return false.
login_l170r ==
  /\ At("login", "l170r")
  /\ IF ret
       THEN Goto("l172") /\ UNCHANGED ret
       ELSE Return(FALSE)
  /\ ScanOver
  /\ UNCHANGED <<paramvars, device, m_cmd_mode, lifevars, histvars>>

\* Variant: a successful login puts the session in command mode.
login_l172_mode ==
  /\ At("login", "l172")
  /\ Return(TRUE)
  /\ m_cmd_mode' = TRUE
  /\ UNCHANGED <<paramvars, device, scanvars, lifevars, histvars>>

\* Lines 172-173: Delay::wait(1.0); return true.
login_l172 ==
  /\ At("login", "l172")
  /\ Return(TRUE)
  /\ UNCHANGED <<paramvars, device, m_cmd_mode, scanvars, lifevars, histvars>>

----------------------------------------------------------------------------
(* setTime, setDVL, save, lines 244-287 *)

\* Lines 247-254: format the clock into SETCLOCK and send it.
setTime_l254 ==
  /\ At("setTime", "l254")
  /\ Call("l254r", SendCommandFrame(Cmd("SETCLOCK"), FALSE, FALSE))
  /\ UNCHANGED <<paramvars, device, m_cmd_mode, ret, scanvars, lifevars, histvars>>

\* Lines 254-257.
setTime_l254r ==
  /\ At("setTime", "l254r")
  /\ Return(ret)
  /\ UNCHANGED <<paramvars, device, m_cmd_mode, scanvars, lifevars, histvars>>

\* Lines 265-269: format rate and salinity into SETDVL and send it.
setDVL_l269 ==
  /\ At("setDVL", "l269")
  /\ Call("l269r", SendCommandFrame(Cmd("SETDVL"), FALSE, FALSE))
  /\ UNCHANGED <<paramvars, device, m_cmd_mode, ret, scanvars, lifevars, histvars>>

\* Lines 269-272.
setDVL_l269r ==
  /\ At("setDVL", "l269r")
  /\ Return(ret)
  /\ UNCHANGED <<paramvars, device, m_cmd_mode, scanvars, lifevars, histvars>>

\* Line 280: sendCommand("SAVE,ALL").
save_l280 ==
  /\ At("save", "l280")
  /\ Call("l280r", SendCommandFrame(Cmd("SAVE,ALL"), FALSE, FALSE))
  /\ UNCHANGED <<paramvars, device, m_cmd_mode, ret, scanvars, lifevars, histvars>>

\* Lines 280-286: on failure ask for the error, else return true.
save_l280r ==
  /\ At("save", "l280r")
  /\ IF ~ret
       THEN Call("l282r", SendCommandFrame(Cmd("GETERROR"), FALSE, FALSE))
            /\ UNCHANGED ret
       ELSE Return(TRUE)
  /\ UNCHANGED <<paramvars, device, m_cmd_mode, scanvars, lifevars, histvars>>

\* Lines 282-283: whatever GETERROR gave, return false.
save_l282r ==
  /\ At("save", "l282r")
  /\ Return(FALSE)
  /\ UNCHANGED <<paramvars, device, m_cmd_mode, scanvars, lifevars, histvars>>

----------------------------------------------------------------------------
(* setup, lines 96-121 *)

NoSteps == [k \in 1..8 |-> "none"]

\* The public operation returns v to the scheduler.
ReturnPublic(v) == stack' = <<>> /\ result' = v /\ UNCHANGED <<ret, phase, op>>

\* Setup step k is over with outcome ok.
StepDone(k, ok) == stepres' = [stepres EXCEPT ![k] = IF ok THEN "ok" ELSE "fail"]

\* Line 99: login().
setup_l99 ==
  /\ At("setup", "l99")
  /\ Call("l99r", Frame("login", "l167"))
  /\ UNCHANGED <<paramvars, device, m_cmd_mode, ret, scanvars, lifevars, histvars>>

\* Lines 99-102: if (!login()) return false; enterCommandMode().
setup_l102 ==
  /\ At("setup", "l99r")
  /\ StepDone(1, ret)
  /\ IF ~ret
       THEN ReturnPublic("false")
       ELSE Call("l102r", Frame("enterCommandMode", "l212"))
            /\ UNCHANGED <<ret, lifevars>>
  /\ UNCHANGED <<paramvars, device, m_cmd_mode, scanvars, sent, nstart>>

\* Lines 102-105: if (!enterCommandMode()) return false;
\* sendCommand("SETDEFAULT,ALL").
setup_l105 ==
  /\ At("setup", "l102r")
  /\ StepDone(2, ret)
  /\ IF ~ret
       THEN ReturnPublic("false")
       ELSE Call("l105r", SendCommandFrame(Cmd("SETDEFAULT,ALL"), FALSE, FALSE))
            /\ UNCHANGED <<ret, lifevars>>
  /\ UNCHANGED <<paramvars, device, m_cmd_mode, scanvars, sent, nstart>>

\* Variant: a failed SETDEFAULT,ALL does not end setup().
setup_l108_noabort ==
  /\ At("setup", "l105r")
  /\ StepDone(3, ret)
  /\ Call("l108r", SendCommandFrame(Cmd("SETINST,LED=\"OFF\""), FALSE, FALSE))
  /\ UNCHANGED <<paramvars, device, m_cmd_mode, ret, scanvars, lifevars, sent, nstart>>

\* Lines 105-108: if (!sendCommand(...)) return false;
\* sendCommand("SETINST,LED=\"OFF\"").
setup_l108 ==
  /\ At("setup", "l105r")
  /\ StepDone(3, ret)
  /\ IF ~ret
       THEN ReturnPublic("false")
       ELSE Call("l108r",
                 SendCommandFrame(Cmd("SETINST,LED=\"OFF\""), FALSE, FALSE))
            /\ UNCHANGED <<ret, lifevars>>
  /\ UNCHANGED <<paramvars, device, m_cmd_mode, scanvars, sent, nstart>>

\* Lines 108-111: if (!sendCommand(...)) return false; setTime().
setup_l111 ==
  /\ At("setup", "l108r")
  /\ StepDone(4, ret)
  /\ IF ~ret
       THEN ReturnPublic("false")
       ELSE Call("l111r", Frame("setTime", "l254"))
            /\ UNCHANGED <<ret, lifevars>>
  /\ UNCHANGED <<paramvars, device, m_cmd_mode, scanvars, sent, nstart>>

\* Lines 111-114: if (!setTime()) return false; setDVL().
setup_l114 ==
  /\ At("setup", "l111r")
  /\ StepDone(5, ret)
  /\ IF ~ret
       THEN ReturnPublic("false")
       ELSE Call("l114r", Frame("setDVL", "l269"))
            /\ UNCHANGED <<ret, lifevars>>
  /\ UNCHANGED <<paramvars, device, m_cmd_mode, scanvars, sent, nstart>>

\* Lines 114-117: if (!setDVL()) return false; save().
setup_l117 ==
  /\ At("setup", "l114r")
  /\ StepDone(6, ret)
  /\ IF ~ret
       THEN ReturnPublic("false")
       ELSE Call("l117r", Frame("save", "l280"))
            /\ UNCHANGED <<ret, lifevars>>
  /\ UNCHANGED <<paramvars, device, m_cmd_mode, scanvars, sent, nstart>>

\* Lines 117-120: if (!save()) return false; start().
setup_l120 ==
  /\ At("setup", "l117r")
  /\ StepDone(7, ret)
  /\ IF ~ret
       THEN ReturnPublic("false") /\ nstart' = nstart
       ELSE Call("l120r", Frame("start", "l197"))
            /\ nstart' = nstart + 1
            /\ UNCHANGED <<ret, lifevars>>
  /\ UNCHANGED <<paramvars, device, m_cmd_mode, scanvars, sent>>

\* Line 120: return start().
setup_l120r ==
  /\ At("setup", "l120r")
  /\ StepDone(8, ret)
  /\ ReturnPublic(Str(ret))
  /\ UNCHANGED <<paramvars, device, m_cmd_mode, scanvars, sent, nstart>>

----------------------------------------------------------------------------
(* setPowerLevel, lines 137-159 *)

\* Lines 140-156: map the level, format SETBT,PL=%f, send it.
setPowerLevel_l156 ==
  /\ At("setPowerLevel", "l141")
  /\ Call("l156r",
          SendCommandFrame(CmdArg("SETBT,PL=", PowerOf(Top.level)), FALSE, FALSE))
  /\ UNCHANGED <<paramvars, device, m_cmd_mode, ret, scanvars, lifevars, histvars>>

\* Lines 156-157: r = the command's result; start().
setPowerLevel_l157 ==
  /\ At("setPowerLevel", "l156r")
  /\ stack' = Append([stack EXCEPT ![Len(stack)].pc = "l157r",
                                   ![Len(stack)].r = ret],
                     Frame("start", "l197"))
  /\ nstart' = nstart + 1
  /\ UNCHANGED <<paramvars, device, m_cmd_mode, ret, scanvars, lifevars, sent, stepres>>

\* Variant: the result of start() is returned.
setPowerLevel_l158_start ==
  /\ At("setPowerLevel", "l157r")
  /\ ReturnPublic(Str(ret))
  /\ UNCHANGED <<paramvars, device, m_cmd_mode, scanvars, histvars>>

\* Line 158: return r.
setPowerLevel_l158 ==
  /\ At("setPowerLevel", "l157r")
  /\ ReturnPublic(Str(Top.r))
  /\ UNCHANGED <<paramvars, device, m_cmd_mode, scanvars, histvars>>

----------------------------------------------------------------------------
(* ~Driver, lines 88-92 *)

\* Line 91: sendCommand("POWERDOWN").
dtor_l91 ==
  /\ At("~Driver", "l91")
  /\ Call("l91r", SendCommandFrame(Cmd("POWERDOWN"), FALSE, FALSE))
  /\ UNCHANGED <<paramvars, device, m_cmd_mode, ret, scanvars, lifevars, histvars>>

\* Variant: the destructor reports the command's result.
dtor_l91r_report ==
  /\ At("~Driver", "l91r")
  /\ ReturnPublic(Str(ret))
  /\ UNCHANGED <<paramvars, device, m_cmd_mode, scanvars, histvars>>

\* Line 92: the command's result is dropped.
dtor_l91r ==
  /\ At("~Driver", "l91r")
  /\ ReturnPublic("void")
  /\ UNCHANGED <<paramvars, device, m_cmd_mode, scanvars, histvars>>

----------------------------------------------------------------------------
(* The scheduler: it constructs the driver, calls setup() once, may then   *)
(* reconfigure it, and destroys it; one operation at a time.               *)

Idle == stack = <<>>

Invoke(name, f) ==
  /\ stack' = <<f>>
  /\ op' = name
  /\ result' = "pending"
  /\ sent' = <<>>
  /\ stepres' = NoSteps
  /\ nstart' = 0
  /\ UNCHANGED <<paramvars, device, m_cmd_mode, ret, scanvars>>

CallSetup ==
  /\ Idle
  /\ phase = "constructed"
  /\ phase' = "ready"
  /\ Invoke("setup", Frame("setup", "l99"))

CallSetPowerLevel ==
  /\ Idle
  /\ phase = "ready"
  /\ phase' = phase
  /\ \E level \in PowerLevel :
       Invoke("setPowerLevel",
              [Frame("setPowerLevel", "l141") EXCEPT !.level = level])

CallDestroy ==
  /\ Idle
  /\ phase \in {"constructed", "ready"}
  /\ phase' = "destroyed"
  /\ Invoke("~Driver", Frame("~Driver", "l91"))

----------------------------------------------------------------------------
(* Constructor, lines 77-85, called with rate = 5.0.  The constructor    *)
(* with every rate is in SpecParams below.  The device is not streaming    *)
(* when the session begins.                                                *)

Init ==
  /\ m_salinity = Dbl(35)
  /\ m_sampling_rate = Dbl(5)
  /\ m_cmd_mode = FALSE
  /\ device = "command"
  /\ stack = <<>>
  /\ ret = FALSE
  /\ bfr = ZeroBfr
  /\ offset = 0
  /\ elapsed = 0
  /\ phase = "constructed"
  /\ op = "none"
  /\ result = "none"
  /\ sent = <<>>
  /\ stepres = NoSteps
  /\ nstart = 0

\* One step of the driver's code.
Step ==
  \/ readUntil_l339 \/ readUntil_l343 \/ readUntil_l345_ready
  \/ readUntil_l345_timeout \/ readUntil_l348
  \/ sendCommand_l309 \/ sendCommand_l311r \/ sendCommand_l315
  \/ sendCommand_l317r
  \/ start_l197 \/ start_l197r
  \/ enterCommandMode_l212 \/ enterCommandMode_l215r \/ enterCommandMode_l218
  \/ enterCommandMode_l219 \/ enterCommandMode_l219r
  \/ sendBreak_l231 \/ sendBreak_l231r \/ sendBreak_l233r
  \/ replyLogin_l183 \/ replyLogin_l183r
  \/ login_l167 \/ login_l168 \/ login_l170 \/ login_l170r \/ login_l172
  \/ setTime_l254 \/ setTime_l254r \/ setDVL_l269 \/ setDVL_l269r
  \/ save_l280 \/ save_l280r \/ save_l282r
  \/ setup_l99 \/ setup_l102 \/ setup_l105 \/ setup_l108 \/ setup_l111
  \/ setup_l114 \/ setup_l117 \/ setup_l120 \/ setup_l120r
  \/ setPowerLevel_l156 \/ setPowerLevel_l157 \/ setPowerLevel_l158
  \/ dtor_l91 \/ dtor_l91r

Next == Step \/ Tick \/ CallSetup \/ CallSetPowerLevel \/ CallDestroy

Spec == Init /\ [][Next]_vars

\* The scheduler keeps running the driver's code, and time passes.
FairSpec == Spec /\ WF_vars(Step) /\ WF_vars(Tick)

----------------------------------------------------------------------------
(* The origin of the acknowledgments.  The device answers each line it    *)
(* receives with "OK\r\n"; an answer may be lost, or arrive after the wait *)
(* made for it, and the socket delivers the answers in the order they     *)
(* were sent.  SpecAck is Spec with one more piece of history: for each   *)
(* acknowledged line, the line whose answer was read.  It is kept out of  *)
(* Spec for the size of the state space.                                  *)

\* The lines before line k whose answer may still arrive.
Unread(k) ==
  {i \in 1..(k - 1) :
     /\ sent[i].ack = "fail"
     /\ \A j \in 1..(k - 1) : sent[j].origin < i}

\* The lines whose answer the match made for the last line may be.
Origins == {Len(sent)} \cup Unread(Len(sent))

\* Line 317: return readUntil(...), with the origin of the answer.
sendCommand_l317r_origin ==
  /\ At("sendCommand", "l317r")
  /\ Return(ret)
  /\ \E src \in (IF ret THEN Origins ELSE {0}) :
       sent' = [sent EXCEPT ![Len(sent)].ack = IF ret THEN "ok" ELSE "fail",
                            ![Len(sent)].origin = src]
  /\ ScanOver
  /\ UNCHANGED <<paramvars, device, m_cmd_mode, lifevars, stepres, nstart>>

StepAck ==
  \/ readUntil_l339 \/ readUntil_l343 \/ readUntil_l345_ready
  \/ readUntil_l345_timeout \/ readUntil_l348
  \/ sendCommand_l309 \/ sendCommand_l311r \/ sendCommand_l315
  \/ sendCommand_l317r_origin
  \/ start_l197 \/ start_l197r
  \/ enterCommandMode_l212 \/ enterCommandMode_l215r \/ enterCommandMode_l218
  \/ enterCommandMode_l219 \/ enterCommandMode_l219r
  \/ sendBreak_l231 \/ sendBreak_l231r \/ sendBreak_l233r
  \/ replyLogin_l183 \/ replyLogin_l183r
  \/ login_l167 \/ login_l168 \/ login_l170 \/ login_l170r \/ login_l172
  \/ setTime_l254 \/ setTime_l254r \/ setDVL_l269 \/ setDVL_l269r
  \/ save_l280 \/ save_l280r \/ save_l282r
  \/ setup_l99 \/ setup_l102 \/ setup_l105 \/ setup_l108 \/ setup_l111
  \/ setup_l114 \/ setup_l117 \/ setup_l120 \/ setup_l120r
  \/ setPowerLevel_l156 \/ setPowerLevel_l157 \/ setPowerLevel_l158
  \/ dtor_l91 \/ dtor_l91r

NextAck == StepAck \/ Tick \/ CallSetup \/ CallSetPowerLevel \/ CallDestroy

SpecAck == Init /\ [][NextAck]_vars

----------------------------------------------------------------------------
(* readUntil on its own: any terminal sequence, any timeout, called once.  *)

ScanSequences == {<<1>>, <<2>>, <<1, 1>>, <<1, 2>>, <<2, 1>>, <<2, 2>>}

InitScan ==
  /\ m_salinity = Dbl(35)
  /\ m_sampling_rate = Dbl(5)
  /\ m_cmd_mode = FALSE
  /\ device = "command"
  /\ \E sequence \in ScanSequences : \E timeout \in {1, 2} :
       stack = <<[Frame("scan", "l0r") EXCEPT !.sequence = sequence],
                 ReadUntilFrame(sequence, timeout, FALSE)>>
  /\ ret = FALSE
  /\ bfr = ZeroBfr
  /\ offset = 0
  /\ elapsed = 0
  /\ phase = "constructed"
  /\ op = "readUntil"
  /\ result = "pending"
  /\ sent = <<>>
  /\ stepres = NoSteps
  /\ nstart = 0

NextScan ==
  \/ readUntil_l339 \/ readUntil_l343 \/ readUntil_l345_ready
  \/ readUntil_l345_timeout \/ readUntil_l348 \/ Tick

SpecScan == InitScan /\ [][NextScan]_vars

----------------------------------------------------------------------------
(* The setters, lines 125-132 and 291-298, with the constructor's call of  *)
(* setSamplingRate at line 84.  The values stored play no part in the      *)
(* control flow of the other operations, so the setters run in a           *)
(* specification of their own, from the member initialisers on.            *)

SalinityInputs == {Dbl(v) : v \in (0 - Beyond)..(50 + Beyond)} \cup {NaN}
RateInputs == {Dbl(v) : v \in (1 - Beyond)..(8 + Beyond)} \cup {NaN}

\* Lines 294-297: if (rate < 1.0 || rate > 8.0) return;
\* m_sampling_rate = rate.
setSamplingRate_l294 ==
  /\ At("setSamplingRate", "l294")
  /\ m_sampling_rate' =
       IF Less(Top.value, Dbl(1)) \/ Greater(Top.value, Dbl(8))
         THEN m_sampling_rate ELSE Top.value
  /\ stack' = SubSeq(stack, 1, Len(stack) - 1)
  /\ UNCHANGED <<m_salinity, device, m_cmd_mode, ret, scanvars, lifevars,
                 histvars>>

\* Line 85: the constructor returns.
ctor_l84r ==
  /\ At("Driver", "l84r")
  /\ stack' = <<>>
  /\ result' = "void"
  /\ phase' = "constructed"
  /\ UNCHANGED <<paramvars, device, m_cmd_mode, ret, op, scanvars, histvars>>

\* Lines 128-131: if (value < 0.0 || value > 50.0) return;
\* m_salinity = value.
setSalinity_l128 ==
  /\ At("setSalinity", "l128")
  /\ m_salinity' =
       IF Less(Top.value, Dbl(0)) \/ Greater(Top.value, Dbl(50))
         THEN m_salinity ELSE Top.value
  /\ ReturnPublic("void")
  /\ UNCHANGED <<m_sampling_rate, device, m_cmd_mode, scanvars, histvars>>

CallSetSalinity ==
  /\ Idle
  /\ phase \in {"constructed", "ready"}
  /\ phase' = phase
  /\ \E value \in SalinityInputs :
       Invoke("setSalinity",
              [Frame("setSalinity", "l128") EXCEPT !.value = value])

\* Lines 79-84: the members are initialised and the constructor is about
\* to call setSamplingRate(rate).
InitParams ==
  /\ m_salinity = Dbl(35)
  /\ m_sampling_rate = Dbl(5)
  /\ m_cmd_mode = FALSE
  /\ device = "command"
  /\ \E rate \in RateInputs :
       stack = <<Frame("Driver", "l84r"),
                 [Frame("setSamplingRate", "l294") EXCEPT !.value = rate]>>
  /\ ret = FALSE
  /\ bfr = ZeroBfr
  /\ offset = 0
  /\ elapsed = 0
  /\ phase = "constructing"
  /\ op = "Driver"
  /\ result = "pending"
  /\ sent = <<>>
  /\ stepres = NoSteps
  /\ nstart = 0

NextParams ==
  setSamplingRate_l294 \/ ctor_l84r \/ CallSetSalinity \/ setSalinity_l128

SpecParams == InitParams /\ [][NextParams]_vars

----------------------------------------------------------------------------
(* Properties *)

Names == [i \in DOMAIN sent |-> sent[i].cmd.name]

Count(name) == Cardinality({i \in DOMAIN sent : Names[i] = name})

\* The setup step a written line belongs to.
StepOf(name) ==
  CASE name = c_cmd_nortek -> 1
    [] name \in {c_cmd_break, "MC"} -> 2
    [] name = "SETDEFAULT,ALL" -> 3
    [] name = "SETINST,LED=\"OFF\"" -> 4
    [] name = "SETCLOCK" -> 5
    [] name = "SETDVL" -> 6
    [] name \in {"SAVE,ALL", "GETERROR"} -> 7
    [] name = "START" -> 8
    [] OTHER -> 0

\* C1: in a run of setup(), once step k has failed no line of a later step
\* is written, no later step is run, and setup() has returned false; when
\* the failed step is SAVE,ALL, GETERROR has been written exactly once,
\* after it and as the last line, whatever its acknowledgment; GETERROR is
\* written in no other case and START never follows a failed SAVE,ALL.
SetupAbortLaw ==
  op = "setup" =>
    /\ \A k \in 1..8 :
         stepres[k] = "fail" =>
           /\ Idle /\ result = "false"
           /\ \A j \in (k + 1)..8 : stepres[j] = "none"
           /\ \A i \in DOMAIN sent : StepOf(Names[i]) <= k
           /\ \A j \in 1..(k - 1) : stepres[j] = "ok"
    /\ stepres[7] = "fail" =>
         /\ Count("GETERROR") = 1
         /\ Names[Len(sent)] = "GETERROR"
         /\ Names[Len(sent) - 1] = "SAVE,ALL"
         /\ sent[Len(sent) - 1].ack = "fail"
    /\ \A i \in DOMAIN sent :
         /\ Names[i] = "GETERROR" =>
              i > 1 /\ Names[i - 1] = "SAVE,ALL" /\ sent[i - 1].ack = "fail"
         /\ (Names[i] = "SAVE,ALL" /\ sent[i].ack = "fail") =>
              Count("START") = 0 /\ stepres[7] # "ok"

\* C1 witness: SAVE,ALL failed, GETERROR was acknowledged, setup() returned
\* false all the same.
SetupAbortWitness ==
  /\ op = "setup" /\ Idle /\ result = "false"
  /\ stepres[7] = "fail"
  /\ sent[Len(sent)].cmd.name = "GETERROR" /\ sent[Len(sent)].ack = "ok"

\* C2: every line written through the default path is written in command
\* mode, every configuration command goes through the default path, and
\* only the break, MC and the credential are written outside command mode.
ModeSafety ==
  \A i \in DOMAIN sent :
    /\ sent[i].via = "default" => sent[i].mode
    /\ ~sent[i].mode => Names[i] \in {c_cmd_break, "MC", c_cmd_nortek}
    /\ Names[i] \notin {c_cmd_break, "MC", c_cmd_nortek} =>
         sent[i].via = "default"

\* C2 witness: setPowerLevel called in measurement mode has written the
\* break and MC outside command mode and then SETBT in command mode.
ModeSafetyWitness ==
  /\ op = "setPowerLevel"
  /\ Len(sent) >= 3
  /\ ~sent[1].mode /\ Names[1] = c_cmd_break
  /\ Names[Len(sent)] = "SETBT,PL=" /\ sent[Len(sent)].mode

\* The places a default-path sendCommand returns to.
DefaultSites ==
  {"l105r", "l108r", "l254r", "l269r", "l280r", "l282r", "l197r", "l156r",
   "l91r"}

\* The places start() returns to.
StartSites == {"l120r", "l157r"}

\* C3: when a command sent through the default path has returned success
\* the session is in command mode; when start() has returned success it
\* is in measurement mode; so it is once setup() has returned success.
ModePostState ==
  /\ (stack # <<>> /\ Top.pc \in DefaultSites /\ ret) => m_cmd_mode
  /\ (stack # <<>> /\ Top.pc \in StartSites /\ ret) => ~m_cmd_mode
  /\ (Idle /\ op = "setup" /\ result = "true") => ~m_cmd_mode

\* C3 witness: setup() has returned success.
ModePostStateWitness ==
  /\ Idle /\ op = "setup" /\ result = "true"
  /\ sent[Len(sent)].cmd.name = "START" /\ sent[Len(sent)].ack = "ok"

\* The lines of setup(), in their order.
SetupOrder ==
  <<c_cmd_break, "MC", "SETDEFAULT,ALL", "SETINST,LED=\"OFF\"", "SETCLOCK",
    "SETDVL", "SAVE,ALL", "START">>

Pos(name) == CHOOSE p \in 1..Len(SetupOrder) : SetupOrder[p] = name

InOrder(name) == \E p \in 1..Len(SetupOrder) : SetupOrder[p] = name

\* C4: in a run of setup() a line is written only after every line that
\* precedes it in break, MC, SETDEFAULT, SETINST, SETCLOCK, SETDVL, SAVE,
\* START has been written and acknowledged, the lines appear in that
\* order, and setup() returns success only with START acknowledged and
\* the seven steps before it successful.
SetupOrdering ==
  op = "setup" =>
    /\ \A j \in DOMAIN sent :
         InOrder(Names[j]) =>
           /\ \A p \in 1..(Pos(Names[j]) - 1) :
                \E i \in 1..(j - 1) :
                  Names[i] = SetupOrder[p] /\ sent[i].ack = "ok"
           /\ \A i \in 1..(j - 1) :
                InOrder(Names[i]) => Pos(Names[i]) <= Pos(Names[j])
    /\ result = "true" =>
         /\ \A k \in 1..8 : stepres[k] = "ok"
         /\ Names[Len(sent)] = "START" /\ sent[Len(sent)].ack = "ok"

\* C4 witness: setup() has returned success after a break that had to be
\* sent twice.
SetupOrderingWitness ==
  /\ Idle /\ op = "setup" /\ result = "true"
  /\ Count(c_cmd_break) = 2

\* The configuration exchange of setPowerLevel was acknowledged.
ConfigAcked ==
  \E i \in DOMAIN sent : Names[i] = "SETBT,PL=" /\ sent[i].ack = "ok"

\* C5: setPowerLevel calls start() exactly once, after the SETBT exchange
\* is over, whatever that exchange's outcome, and returns that outcome.
PowerLevelQuirk ==
  op = "setPowerLevel" =>
    /\ (stack # <<>> /\ stack[1].pc \in {"l141", "l156r"}) =>
         nstart = 0 /\ Count("START") = 0
    /\ (stack # <<>> /\ stack[1].pc = "l157r") =>
         nstart = 1 /\ stack[1].r = ConfigAcked
    /\ Idle => nstart = 1 /\ result = Str(ConfigAcked)

\* C5 witness: the configuration failed, the start was acknowledged, and
\* setPowerLevel returned false.
PowerLevelQuirkWitness ==
  /\ Idle /\ op = "setPowerLevel" /\ result = "false"
  /\ Count("SETBT,PL=") = 1
  /\ sent[Len(sent)].cmd.name = "START" /\ sent[Len(sent)].ack = "ok"

\* The commands other than the break.
OnceCommands ==
  {"MC", "SETDEFAULT,ALL", "SETINST,LED=\"OFF\"", "SETCLOCK", "SETDVL",
   "SAVE,ALL", "GETERROR", "SETBT,PL=", "START", "POWERDOWN"}

\* Line i ended a failed mode entry: MC unacknowledged, or the second of
\* two unacknowledged breaks.
ModeEntryFailedAt(i) ==
  \/ Names[i] = "MC" /\ sent[i].ack = "fail"
  \/ /\ i > 1
     /\ Names[i] = c_cmd_break /\ sent[i].ack = "fail"
     /\ Names[i - 1] = c_cmd_break /\ sent[i - 1].ack = "fail"
     /\ \/ i = 2
        \/ Names[i - 2] # c_cmd_break
        \/ (i > 3 /\ Names[i - 3] = c_cmd_break /\ Names[i - 2] = c_cmd_break)

NoRetry ==
  /\ \A name \in OnceCommands : Count(name) <= 1
  /\ \A i \in DOMAIN sent :
       ModeEntryFailedAt(i) =>
         \A j \in (i + 1)..Len(sent) : Names[j] \notin {c_cmd_break, "MC"}

\* C6 as claimed: within one public operation every command other than
\* the break is written at most once and a failed mode entry is not
\* attempted again.
NoRetryClaimed == NoRetry

\* C6 as amended: that holds within setup() and the teardown; within
\* setPowerLevel SETBT and START are written at most once each, and a mode
\* entry that failed for SETBT is attempted once more, for START, so that
\* MC is written at most twice, the second time only after a failed mode
\* entry and with SETBT never written.
NoRetryAmended ==
  /\ op \in {"setup", "~Driver"} => NoRetry
  /\ op = "setPowerLevel" =>
       /\ \A name \in OnceCommands \ {"MC"} : Count(name) <= 1
       /\ Count("MC") <= 2
       /\ Count(c_cmd_break) <= 4
       /\ Cardinality({i \in DOMAIN sent : ModeEntryFailedAt(i)}) <= 2
       /\ \A i \in DOMAIN sent :
            ModeEntryFailedAt(i) =>
              /\ Count("SETBT,PL=") = 0
              /\ \A j \in (i + 1)..Len(sent) :
                   Names[j] \in {c_cmd_break, "MC"} => nstart = 1

\* C6 witness: setPowerLevel has written MC a second time.
NoRetryWitness ==
  /\ op = "setPowerLevel"
  /\ Count("MC") = 2

\* C7: every public operation that has been invoked returns, with a
\* definite result.
Termination ==
  (~Idle) ~> (Idle /\ result \in {"true", "false", "void"})

\* C7 witness: setup() has returned false after SETDEFAULT,ALL went
\* unacknowledged.
TerminationWitness ==
  /\ Idle /\ op = "setup" /\ result = "false"
  /\ stepres[3] = "fail"
  /\ sent[Len(sent)].ack = "fail"

\* C9: when the mode entry made for a command has failed, sendCommand
\* returns false at once: nothing is written and no reply is awaited.
FailedModeEntrySendsNothing ==
  [][(At("sendCommand", "l311r") /\ ~ret) =>
       /\ stack' = SubSeq(stack, 1, Len(stack) - 1)
       /\ ret' = FALSE
       /\ sent' = sent
       /\ UNCHANGED <<scanvars, m_cmd_mode>>]_vars

\* C9 witness: a mode entry made for SETBT has failed.
FailedModeEntryWitness ==
  /\ At("sendCommand", "l311r") /\ ~ret /\ ~m_cmd_mode
  /\ Top.cmd.name = "SETBT,PL="

\* C8: sendCommand returns success only when the bytes received end with
\* "OK\r\n", and as soon as the bytes received end with "OK\r\n" it
\* returns success; otherwise it returns failure, as a value.
ExecutorOutcome ==
  /\ At("sendCommand", "l317r") =>
       /\ ret \in BOOLEAN
       /\ ret => EndsWith(Accumulated, c_reply_ok)
  /\ (At("readUntil", "l343") /\ offset > 0
      /\ stack[Len(stack) - 1].fn = "sendCommand") =>
       ~EndsWith(Accumulated, c_reply_ok)

\* C10: readUntil returns success only when the bytes accumulated end with
\* the terminal sequence and fit the buffer, and it is never still
\* scanning once the bytes accumulated end with the terminal sequence.
ScanExactness ==
  /\ (At("scan", "l0r") /\ ret) =>
       EndsWith(Accumulated, Top.sequence) /\ offset <= BufSize
  /\ (At("readUntil", "l343") /\ offset > 0) =>
       ~EndsWith(Accumulated, Top.sequence)

\* C11: once the buffer is full without a match, readUntil returns failure
\* for the overflow: it neither polls nor reads again with no room left,
\* and a failure with a full buffer does not have to wait for the timeout.
ScanOverflowFails ==
  ~(stack # <<>> /\ Top.fn = "readUntil" /\ Top.pc \in {"l345", "l348"}
    /\ offset >= BufSize)

InRange(x, lo, hi) == ~x.nan /\ lo <= x.v /\ x.v <= hi

\* C12: setSalinity(v) stores v iff 0 <= v <= 50 and setSamplingRate(v)
\* stores v iff 1 <= v <= 8; otherwise the stored value stays; the setters
\* leave the mode, the transport and the other parameter alone.
SettersRangeChecked ==
  [][/\ At("setSalinity", "l128") =>
          /\ m_salinity' = IF InRange(Top.value, 0, 50)
                             THEN Top.value ELSE m_salinity
          /\ UNCHANGED <<m_sampling_rate, m_cmd_mode, sent, device, scanvars>>
     /\ At("setSamplingRate", "l294") =>
          /\ m_sampling_rate' = IF InRange(Top.value, 1, 8)
                                  THEN Top.value ELSE m_sampling_rate
          /\ UNCHANGED <<m_salinity, m_cmd_mode, sent, device, scanvars>>
    ]_vars

\* The transmit powers of the specification, in decibels.
PowerTable == [PL_MIN |-> -20, PL_MED |-> -10, PL_MAX |-> 0]

\* C13: the power formatted into SETBT,PL= is -20 for PL_MIN, -10 for
\* PL_MED and 0 for PL_MAX, whatever the state of the session; distinct
\* levels give distinct powers.
PowerMapping ==
  /\ \A a, b \in PowerLevel : a # b => PowerOf(a) # PowerOf(b)
  /\ (op = "setPowerLevel" /\ stack # <<>>) =>
       /\ stack[1].level \in PowerLevel
       /\ (Len(stack) >= 2 /\ stack[1].pc = "l156r") =>
            stack[2].cmd = CmdArg("SETBT,PL=", PowerTable[stack[1].level])
       /\ \A i \in DOMAIN sent :
            Names[i] = "SETBT,PL=" =>
              sent[i].cmd.arg = PowerTable[stack[1].level]

\* C13 witness: SETBT,PL=-20 was written for PL_MIN by a session that
\* believed itself in command mode while the device was streaming.
PowerMappingWitness ==
  /\ op = "setPowerLevel" /\ stack # <<>> /\ stack[1].level = "PL_MIN"
  /\ \E i \in DOMAIN sent :
       /\ Names[i] = "SETBT,PL=" /\ sent[i].cmd.arg = -20
       /\ sent[i].mode /\ sent[i].dev = "streaming"

\* C14: teardown calls sendCommand("POWERDOWN") once: POWERDOWN is the
\* last line written, written once unless the mode entry made for it
\* fails, and the destructor ends reporting nothing, acknowledged or not.
TeardownBestEffort ==
  op = "~Driver" =>
    /\ Count("POWERDOWN") <= 1
    /\ \A i \in DOMAIN sent : Names[i] = "POWERDOWN" => i = Len(sent)
    /\ (stack # <<>> /\ stack[1].pc = "l91") => sent = <<>>
    /\ (Len(stack) >= 2 /\ stack[1].pc = "l91r") =>
         stack[2].fn = "sendCommand" /\ stack[2].cmd = Cmd("POWERDOWN")
    /\ Idle =>
         /\ result = "void" /\ phase = "destroyed"
         /\ sent # <<>>
         /\ Count("POWERDOWN") = 1 \/ ModeEntryFailedAt(Len(sent))

\* C14 witness: teardown is over after a setup() that failed, POWERDOWN
\* written in command mode and left unacknowledged.
TeardownWitness ==
  /\ Idle /\ op = "~Driver" /\ result = "void"
  /\ sent = <<[SentEntry(Cmd("POWERDOWN"), "default") EXCEPT
                 !.mode = TRUE, !.ack = "fail", !.timeout = 1]>>

\* C15: login() returns true only when both prompts were matched, each
\* answered with the credential once, and then the banner was matched; a
\* prompt that is not matched makes login() return false.
LoginExact ==
  At("setup", "l99r") =>
    /\ Count(c_cmd_nortek) <= 2
    /\ \A i \in DOMAIN sent : Names[i] = c_cmd_nortek /\ sent[i].via = "raw"
    /\ ret => Count(c_cmd_nortek) = 2

\* The commands that configure the device.
ConfigCommands ==
  {"SETDEFAULT,ALL", "SETINST,LED=\"OFF\"", "SETCLOCK", "SETDVL", "SAVE,ALL",
   "SETBT,PL="}

\* C16: no configuration command is written while the device is streaming,
\* the device streaming from the START it receives until the break
\* followed by MC.
StreamingSafety ==
  \A i \in DOMAIN sent :
    Names[i] \in ConfigCommands => sent[i].dev # "streaming"

\* A mode entry is running.
InModeEntry == \E k \in DOMAIN stack : stack[k].fn = "enterCommandMode"

\* Its frame.
ModeEntry ==
  stack[CHOOSE k \in DOMAIN stack : stack[k].fn = "enterCommandMode"]

\* The lines written by the running mode entry.
EntryLines == {i \in DOMAIN sent : i > ModeEntry.base}

\* C17: one call of sendBreak writes the break once or twice, the second
\* time only after a first attempt that failed; it returns false iff both
\* attempts failed, and true with the first attempt that succeeded.
BreakRetryOnce ==
  (InModeEntry /\ ModeEntry.pc = "l215r") =>
    /\ Cardinality(EntryLines) <= 2
    /\ \A i \in EntryLines :
         /\ Names[i] = c_cmd_break
         /\ i > ModeEntry.base + 1 => sent[i - 1].ack = "fail"
    /\ At("enterCommandMode", "l215r") =>
         /\ Cardinality(EntryLines) >= 1
         /\ ret = (\E i \in EntryLines : sent[i].ack = "ok")
         /\ ~ret => /\ Cardinality(EntryLines) = 2
                    /\ \A i \in EntryLines : sent[i].ack = "fail"

\* C17 witness: sendBreak has returned true after a second attempt, the
\* first one unacknowledged.
BreakRetryWitness ==
  /\ At("enterCommandMode", "l215r") /\ ret
  /\ Cardinality(EntryLines) = 2
  /\ sent[Len(sent) - 1].ack = "fail" /\ sent[Len(sent)].ack = "ok"

\* C18 as claimed: a break that was written counts as sent without any
\* acknowledgment: sendBreak writes it once and returns true.
BreakNoAckClaimed ==
  (InModeEntry /\ ModeEntry.pc = "l215r") =>
    /\ Cardinality(EntryLines) <= 1
    /\ At("enterCommandMode", "l215r") => ret

\* C18, amended: the break is acknowledged like any command: sendBreak
\* returns true iff its last attempt was acknowledged, an unacknowledged
\* first attempt is followed by the second one, and after two
\* unacknowledged attempts sendBreak returns false.
BreakNeedsAck ==
  At("enterCommandMode", "l215r") =>
    /\ EntryLines # {}
    /\ \A i \in EntryLines : Names[i] = c_cmd_break /\ sent[i].via = "bypass"
    /\ ret <=> sent[Len(sent)].ack = "ok"
    /\ sent[ModeEntry.base + 1].ack = "fail" =>
         EntryLines = {ModeEntry.base + 1, ModeEntry.base + 2}

\* C18 witness: two breaks were written, neither was acknowledged, and
\* sendBreak has returned false.
BreakNeedsAckWitness ==
  /\ At("enterCommandMode", "l215r") /\ ~ret
  /\ Cardinality(EntryLines) = 2
  /\ \A i \in EntryLines : Names[i] = c_cmd_break /\ sent[i].ack = "fail"

\* C19: a mode entry made outside command mode writes the break first; MC
\* is written only after an acknowledged break and the 1.0 s delay, never
\* after a failed sendBreak; m_cmd_mode becomes true iff MC is
\* acknowledged, and the entry returns true iff it is.
EnterSequencing ==
  [][/\ (InModeEntry /\ ModeEntry.pc # "l212") =>
          /\ ~m_cmd_mode
          /\ \A i \in EntryLines : Names[i] \in {c_cmd_break, "MC"}
          /\ EntryLines # {} => Names[ModeEntry.base + 1] = c_cmd_break
          /\ \A i \in EntryLines :
               Names[i] = "MC" =>
                 /\ i = Len(sent) /\ i - 1 \in EntryLines
                 /\ Names[i - 1] = c_cmd_break /\ sent[i - 1].ack = "ok"
     /\ (At("enterCommandMode", "l219")' /\ ~At("enterCommandMode", "l219"))
          => At("enterCommandMode", "l218")
     /\ (At("enterCommandMode", "l218")' /\ ~At("enterCommandMode", "l218"))
          => At("enterCommandMode", "l215r") /\ ret
     /\ (At("enterCommandMode", "l215r") /\ ~ret) =>
          /\ stack' = SubSeq(stack, 1, Len(stack) - 1)
          /\ ret' = FALSE /\ m_cmd_mode' = FALSE /\ sent' = sent
     /\ At("enterCommandMode", "l219r") =>
          /\ Names[Len(sent)] = "MC"
          /\ ret = (sent[Len(sent)].ack = "ok")
          /\ stack' = SubSeq(stack, 1, Len(stack) - 1)
          /\ ret' = ret /\ m_cmd_mode' = ret
    ]_vars

\* C19 witness: MC was acknowledged after a break that needed its second
\* attempt, and the entry is about to set m_cmd_mode.
EnterSequencingWitness ==
  /\ At("enterCommandMode", "l219r") /\ ret /\ ~m_cmd_mode
  /\ Cardinality(EntryLines) = 3
  /\ Names[Len(sent)] = "MC" /\ sent[Len(sent)].ack = "ok"

\* C20: in command mode enterCommandMode returns true at once: nothing is
\* written, nothing is read, no time passes, and the session is as before.
EnterNoOp ==
  [][(At("enterCommandMode", "l212") /\ m_cmd_mode) =>
       /\ stack' = SubSeq(stack, 1, Len(stack) - 1)
       /\ ret' = TRUE
       /\ UNCHANGED <<paramvars, m_cmd_mode, device, scanvars, lifevars,
                      histvars>>]_vars

\* C20 witness: the mode entry made for SETINST,LED="OFF" starts in
\* command mode.
EnterNoOpWitness ==
  /\ At("enterCommandMode", "l212") /\ m_cmd_mode
  /\ Len(stack) >= 2
  /\ stack[Len(stack) - 1].cmd.name = "SETINST,LED=\"OFF\""

\* login() is running.
InLogin == \E k \in DOMAIN stack : stack[k].fn = "login"

\* C21 as claimed: once login() has returned true the session is in
\* command mode.
LoginAdvancesClaimed ==
  (At("setup", "l99r") /\ ret) => m_cmd_mode

\* C21, amended: login() leaves m_cmd_mode as it was, false, whether it
\* succeeds or fails; it returns true only after the 1.0 s delay that
\* follows the banner.
LoginKeepsMode ==
  [][/\ InLogin => ~m_cmd_mode /\ m_cmd_mode' = m_cmd_mode
     /\ (At("setup", "l99r")' /\ ~At("setup", "l99r") /\ ret') =>
          At("login", "l172")
     /\ (At("login", "l172")' /\ ~At("login", "l172")) =>
          At("login", "l170r") /\ ret
    ]_vars

\* C21 witness: login() has returned true, both prompts answered, and the
\* session is not in command mode.
LoginKeepsModeWitness ==
  /\ At("setup", "l99r") /\ ret /\ ~m_cmd_mode
  /\ Count(c_cmd_nortek) = 2

\* The exchange that has just returned to the running frame wrote name
\* and was acknowledged.
Acked(name) ==
  /\ ret /\ sent # <<>>
  /\ Names[Len(sent)] = name /\ sent[Len(sent)].ack = "ok"

\* C22: m_cmd_mode changes in two steps only: it becomes true in the step
\* that follows an acknowledged MC and false in the step that follows an
\* acknowledged START; those steps always change it, and every other step
\* leaves it alone.
ModeChangePoints ==
  [][/\ (m_cmd_mode' # m_cmd_mode) =>
          \/ m_cmd_mode' /\ At("enterCommandMode", "l219r") /\ Acked("MC")
          \/ ~m_cmd_mode' /\ At("start", "l197r") /\ Acked("START")
     /\ (At("enterCommandMode", "l219r") /\ ret) => ~m_cmd_mode /\ m_cmd_mode'
     /\ (At("start", "l197r") /\ ret) => m_cmd_mode /\ ~m_cmd_mode'
    ]_vars

\* C22 witness: within setPowerLevel START has been acknowledged and
\* start() is about to leave command mode.
ModeChangeWitness ==
  /\ op = "setPowerLevel" /\ At("start", "l197r") /\ Acked("START")
  /\ m_cmd_mode
  /\ \E i \in DOMAIN sent : Names[i] = "MC" /\ sent[i].ack = "ok"

\* C23: offset stays within 0..sizeof(bfr); a read adds at most the room
\* left, keeps the bytes received before it, and no byte lands at or
\* beyond the new offset.
BufferBound ==
  [][/\ offset' \in 0..BufSize
     /\ DOMAIN bfr' = 1..BufSize
     /\ \A i \in 1..BufSize : i > offset' => bfr'[i] = NUL
     /\ At("readUntil", "l348") =>
          /\ offset' >= offset
          /\ offset' - offset <= BufSize - offset
          /\ \A i \in 1..offset : bfr'[i] = bfr[i]
    ]_vars

\* C23 witness: the buffer is full of non-NUL bytes and the scan is about
\* to read again, with no room left.
BufferBoundWitness ==
  /\ At("readUntil", "l348")
  /\ offset = BufSize
  /\ NulAt(bfr) = {}

\* The lines whose acknowledgment has been waited for.
Waited == {i \in DOMAIN sent : sent[i].timeout > 0}

\* C24 as claimed: the acknowledgment of MC is given less time than that
\* of a configuration command.
McTimeoutClaimed ==
  \A i, j \in Waited :
    (Names[i] = "MC" /\ Names[j] \in ConfigCommands) =>
      sent[i].timeout < sent[j].timeout

\* C24, amended: every command, MC and the break included, is given the
\* same time for its acknowledgment; every line written by sendCommand is
\* waited for.
McTimeoutSame ==
  /\ \A i, j \in Waited : sent[i].timeout = sent[j].timeout
  /\ \A i \in DOMAIN sent :
       (sent[i].via # "raw" /\ sent[i].ack # "none") => i \in Waited

\* C24 witness: within setup() MC and SETDEFAULT,ALL were both
\* acknowledged in time.
McTimeoutWitness ==
  /\ op = "setup"
  /\ \E i, j \in Waited :
       /\ Names[i] = "MC" /\ sent[i].ack = "ok"
       /\ Names[j] = "SETDEFAULT,ALL" /\ sent[j].ack = "ok"

\* C25: the answer matched by an exchange that returns success is the
\* answer to the line that exchange wrote, never the late answer to an
\* earlier line whose exchange timed out.
AckAttribution ==
  \A i \in DOMAIN sent : sent[i].ack = "ok" => sent[i].origin = i

====
